---- MODULE Spec2Model ----
(***************************************************************************)
(* The authenticated request pipeline of frontend/src/context/AuthContext  *)
(* (axios instance `api`, its request and response interceptors, the       *)
(* module-level isRefreshing flag and failedQueue, processQueue) together  *)
(* with the session operations of AuthProvider that go through it.         *)
(*                                                                         *)
(* JavaScript runs every handler to completion; promise continuations run  *)
(* as microtasks before the next network event is delivered.  One action   *)
(* is therefore one network event (or one user call) together with all     *)
(* the continuations it wakes.                                             *)
(***************************************************************************)
EXTENDS Integers, Sequences, FiniteSets, TLC

\* ---------------------------------------------------------------- bounds
MaxReq == 3          \* number of calls made through `api` in one run
MaxCalls == 3        \* number of calls of findNearbyByCoords in one run
MaxTime == 10        \* last instant of the clock, in units of 15 s

\* ------------------------------------------------------------- constants
None == <<>>                         \* absent localStorage entry / header
NoResponse == 0                      \* error.response is undefined
AuthFailure == {401, 422}            \* statuses of the test on line 63
ErrorStatuses == {401, 422, 404, 500, NoResponse}
RefreshFailures == {401, 422, 404, 500, NoResponse}
\* "plain": api.get/post of a page; "login": login, register and
\* handleGoogleCallback; "checkAuth": the api.get('/user') of checkAuth
Kinds == {"plain", "login"}
Reqs == 1..MaxReq

VARIABLES
  store,        \* localStorage: access_token, refresh_token, user
  user,         \* React state `user` of AuthProvider
  defaultAuth,  \* api.defaults.headers.common['Authorization']
  isRefreshing, \* module-level flag
  failedQueue,  \* module-level array of {resolve, reject}: handle ids
  handles,      \* every promise ever pushed on failedQueue, in push order;
                \* pos: its place in the order of settling (0: pending)
  req,          \* the calls made through `api`: config and progress
  nextReq,      \* number of calls made so far + 1
  refreshCalls, \* outstanding axios.post(`${API_URL}/refresh`) calls
  refreshLog,   \* history: every call to /refresh ever issued, its outcome
  pathname,     \* window.location.pathname
  redirects,    \* history: number of assignments to window.location.href
  nearby        \* src/unnamed/part_000: STATE, the clock and the calls of
                \* findNearbyByCoords

authVars == <<store, user, defaultAuth, isRefreshing, failedQueue, handles, req,
          nextReq, refreshCalls, refreshLog, pathname, redirects>>
vars == <<authVars, nearby>>

\* ---------------------------------------------------------------- tokens
AccessTok(sess, n)  == <<"a", sess, n>>
RefreshTok(sess, n) == <<"r", sess, n>>
Profile(sess)       == <<"u", sess>>

EmptyStore == [access |-> None, refresh |-> None, user |-> None]
SavedSession == [access |-> AccessTok(0, 0), refresh |-> RefreshTok(0, 0),
                 user |-> Profile(0)]

NewReq == [st |-> "new", kind |-> "plain", retry |-> FALSE, hdr |-> None,
           resends |-> 0, err |-> "none", path |-> "none"]

\* ------------------------------------------------------ pure helpers
\* request interceptor, lines 33-43
AttachToken(s, h) == IF s.access # None THEN s.access ELSE h

\* mutant: the refresh token survives the clean-up
ClearStore_KeepRefresh(s) == [s EXCEPT !.access = None, !.user = None]

\* localStorage.removeItem x3 (lines 125-127, 292-294); localStorage.clear()
\* of line 83 has the same effect on the three entries
ClearStore(s) == EmptyStore

\* mutant: the isRefreshing test of line 64 is missing
Branch_NoGate(status, retry, refreshing, rt) ==
  IF status \in AuthFailure /\ ~retry
  THEN IF rt = None THEN "noRefreshToken" ELSE "refresh"
  ELSE "propagate"

\* mutant: the _retry test of line 63 is missing
Branch_IgnoreRetry(status, retry, refreshing, rt) ==
  IF status \in AuthFailure
  THEN IF refreshing THEN "queue"
       ELSE IF rt = None THEN "noRefreshToken" ELSE "refresh"
  ELSE "propagate"

\* mutant: the status test of line 63 lets every 4xx status through
Branch_Any4xx(status, retry, refreshing, rt) ==
  IF status \in AuthFailure \cup {404} /\ ~retry
  THEN IF refreshing THEN "queue"
       ELSE IF rt = None THEN "noRefreshToken" ELSE "refresh"
  ELSE "propagate"

\* lines 63-86: which branch of the response interceptor an error takes
Branch(status, retry, refreshing, rt) ==
  IF status \in AuthFailure /\ ~retry
  THEN IF refreshing THEN "queue"
       ELSE IF rt = None THEN "noRefreshToken" ELSE "refresh"
  ELSE "propagate"

\* mutant: the new access token is not written to localStorage
StoreAfterRefresh_Skip(s, tok) == s

\* line 107
StoreAfterRefresh(s, tok) == [s EXCEPT !.access = tok]

\* mutant: processQueue does not reset failedQueue
QueueAfterProcess_Keep(q) == q

\* line 29
QueueAfterProcess(q) == <<>>

\* mutant: every rejected request performs the redirect
FailureRedirects_PerRequest(path, n) == IF path # "/login" THEN n ELSE 0

\* lines 129-132: assignments to window.location.href made when a refresh
\* call fails with n requests (the initiator and the waiters) to reject
FailureRedirects(path, n) == IF path # "/login" THEN 1 ELSE 0

\* mutant: the refresh call is made with `api`, whose response interceptor
\* takes its 401/422 (and, isRefreshing being set, queues it)
RefreshErrorPath_ThroughApi(status) ==
  IF status \in AuthFailure THEN "interceptor" ELSE "catch"

\* lines 90 and 119: the refresh call is made with the bare axios, so its
\* rejection reaches the catch block whatever the status
RefreshErrorPath(status) == "catch"

\* mutant: the body of a 200 answer is not looked at
RefreshResult_TrustStatus(status, hasToken) ==
  IF status = 200 THEN "ok" ELSE "failed"

\* lines 90-105: what the try block makes of the answer to the refresh call;
\* hasToken: response.data.access_token is there
RefreshResult(status, hasToken) ==
  IF status = 200 /\ hasToken THEN "ok" ELSE "failed"

\* lines 212-216
StoreAfterLogin(s, sess) ==
  [access |-> AccessTok(sess, 0), refresh |-> RefreshTok(sess, 0),
   user |-> Profile(sess)]

\* logout, lines 290-297, on <<store, defaultAuth, user>>
LoggedOut(s) == <<ClearStore(s), None, None>>

\* mutant: checkAuth logs out on every error of its call
AfterReject_LogoutOnAnyError(kind, status, s, d, u) ==
  IF kind = "checkAuth" THEN LoggedOut(s) ELSE <<s, d, u>>

\* mutant: checkAuth has no 404 branch
AfterReject_No404Branch(kind, status, s, d, u) ==
  IF kind = "checkAuth" THEN <<s, d, SavedSession.user>> ELSE <<s, d, u>>

\* What the caller's catch block makes of <<store, defaultAuth, user>> when
\* its call rejects with an error of this status: checkAuth, lines 173-199;
\* login, register and handleGoogleCallback (lines 225-229) change nothing
AfterReject(kind, status, s, d, u) ==
  IF kind = "checkAuth"
  THEN IF status = 404 THEN LoggedOut(s) ELSE <<s, d, SavedSession.user>>
  ELSE <<s, d, u>>

QueuedHandles == {failedQueue[i] : i \in 1..Len(failedQueue)}
Occurrences(h) == Cardinality({i \in 1..Len(failedQueue) : failedQueue[i] = h})
\* requests whose pending promise is settled by this processQueue
Waiters == {handles[h].r : h \in {g \in QueuedHandles : handles[g].calls = 0}}

\* mutant: processQueue walks the array from its end
ReleaseOrder_Reversed(q) == [i \in 1..Len(q) |-> q[Len(q) + 1 - i]]

\* failedQueue.forEach (line 22) visits the entries in index order
ReleaseOrder(q) == q

\* number of promises settled so far, and the place of entry h in this walk
Settled == Cardinality({g \in 1..Len(handles) : handles[g].how # "pending"})
VisitedAt(h) ==
  LET o == ReleaseOrder(failedQueue)
  IN  CHOOSE i \in 1..Len(o) : o[i] = h /\ \A j \in 1..(i - 1) : o[j] # h

\* processQueue, lines 21-28: resolve or reject every entry
ProcessQueue(how) ==
  [h \in 1..Len(handles) |->
     IF h \in QueuedHandles
     THEN [handles[h] EXCEPT !.calls = @ + Occurrences(h),
                             !.how = IF @ = "pending" THEN how ELSE @,
                             !.pos = IF @ = 0 THEN Settled + VisitedAt(h) ELSE @,
                             !.storeAt = store, !.userAt = user]
     ELSE handles[h]]

\* api(originalRequest): lines 70-71 and 112/118, then the request interceptor
Resend(q, s, tok) ==
  [q EXCEPT !.st = "inflight", !.hdr = AttachToken(s, tok), !.resends = @ + 1]

\* ------------------------------------------- src/unnamed/part_000
\* The clock counts units of 15 s.
MinRetry == 4        \* STATE.minRetryMs = 60000 (line 7)
FetchTimeout == 3    \* timeout: 45000 (lines 18, 45)
Calls == 1..MaxCalls
Running == {"fetching", "parsing"}

\* lines 4-8 once the script has been evaluated; Date.now() is far beyond
\* minRetryMs, so the first search is not throttled
NearbyStart ==
  [inProgress |-> FALSE, lastAttemptAt |-> 0, now |-> MinRetry,
   pc |-> [c \in Calls |-> "new"]]

\* mutant: no finally block, the lock is released on the two early returns
\* of the try block only
LockAfter_NoFinally(path, lock) ==
  IF path \in {"notOk", "badPayload"} THEN FALSE ELSE lock

\* STATE.inProgress when findNearbyByCoords has finished by this path: lines
\* 48, 54 and the finally block (67-69), which every path leaves through
LockAfter(path, lock) == FALSE

\* ------------------------------------------------------------------ Init
Init ==
  \* AuthProvider has mounted and checkAuth (lines 151-168) has run up to
  \* its await: with a saved token and profile the cached user is set and
  \* api.get('/user') is in flight.  The document was opened either on a
  \* page of the application or on the login page (line 130 tells them apart).
  /\ \/ /\ store = EmptyStore /\ pathname = "/login"
        /\ user = None
        /\ req = [r \in Reqs |-> NewReq]
        /\ nextReq = 1
     \/ /\ store = SavedSession /\ pathname \in {"/", "/login"}
        /\ user = SavedSession.user
        /\ req = [r \in Reqs |->
                    IF r = 1
                    THEN [NewReq EXCEPT !.st = "inflight",
                                        !.kind = "checkAuth",
                                        !.hdr = SavedSession.access]
                    ELSE NewReq]
        /\ nextReq = 2
  /\ defaultAuth = None
  /\ isRefreshing = FALSE
  /\ failedQueue = <<>>
  /\ handles = <<>>
  /\ refreshCalls = {}
  /\ refreshLog = <<>>
  /\ redirects = 0
  /\ nearby = NearbyStart

\* --------------------------------------------------------------- actions
\* api.get(...) / api.post(...): defaults merged into the config, then the
\* request interceptor (lines 33-43)
Submit(k) ==
  /\ nextReq <= MaxReq
  /\ req' = [req EXCEPT ![nextReq] =
               [NewReq EXCEPT !.st = "inflight", !.kind = k,
                              !.hdr = AttachToken(store, defaultAuth)]]
  /\ nextReq' = nextReq + 1
  /\ UNCHANGED nearby
  /\ UNCHANGED <<store, user, defaultAuth, isRefreshing, failedQueue, handles,
                 refreshCalls, refreshLog, pathname, redirects>>

\* line 52, then the caller's continuation: lines 212-224 for login,
\* register and handleGoogleCallback, lines 169-170 for checkAuth, nothing
\* for other calls
ResponseOk(r) ==
  /\ req[r].st = "inflight"
  /\ req' = [req EXCEPT ![r].st = "resolved", ![r].path = "ok"]
  /\ CASE req[r].kind = "login" ->
            /\ store' = StoreAfterLogin(store, r)
            /\ defaultAuth' = AccessTok(r, 0)
            /\ user' = Profile(r)
       [] req[r].kind = "checkAuth" ->
            /\ store' = [store EXCEPT !.user = Profile(req[r].hdr[2])]
            /\ user' = Profile(req[r].hdr[2])
            /\ UNCHANGED defaultAuth
       [] OTHER -> UNCHANGED <<store, defaultAuth, user>>
  /\ UNCHANGED nearby
  /\ UNCHANGED <<isRefreshing, failedQueue, handles, nextReq, refreshCalls,
                 refreshLog, pathname, redirects>>

\* lines 64-74: already refreshing, queue this request
Enqueue(r, status) ==
  /\ handles' = Append(handles, [r |-> r, calls |-> 0, how |-> "pending",
                                 pos |-> 0,
                                 storeAt |-> EmptyStore, userAt |-> None])
  /\ failedQueue' = Append(failedQueue, Len(handles) + 1)
  /\ req' = [req EXCEPT ![r].st = "queued"]
  /\ UNCHANGED nearby
  /\ UNCHANGED <<store, user, defaultAuth, isRefreshing, nextReq,
                 refreshCalls, refreshLog, pathname, redirects>>

\* lines 76-86: no refresh token in localStorage
NoRefreshToken(r, status) ==
  /\ isRefreshing' = TRUE
  /\ LET a == AfterReject(req[r].kind, status, ClearStore(store),
                          defaultAuth, user)
     IN  store' = a[1] /\ defaultAuth' = a[2] /\ user' = a[3]
  /\ pathname' = "/login"
  /\ redirects' = redirects + 1
  /\ req' = [req EXCEPT ![r].st = "rejected", ![r].retry = TRUE,
                        ![r].err = "own",
                        ![r].path = "noRefreshToken"]
  /\ UNCHANGED nearby
  /\ UNCHANGED <<failedQueue, handles, nextReq, refreshCalls, refreshLog>>

\* lines 76-99: mark, take the flag, issue the refresh call and await it
StartRefresh(r, status) ==
  /\ isRefreshing' = TRUE
  /\ refreshCalls' = refreshCalls \cup
                       {[id |-> Len(refreshLog) + 1, by |-> r,
                         rt |-> store.refresh]}
  /\ refreshLog' = Append(refreshLog, [by |-> r, sentWith |-> req[r].hdr,
                                       attempt |-> req[r].resends,
                                       rt |-> store.refresh,
                                       outcome |-> "pending", tok |-> None])
  /\ req' = [req EXCEPT ![r].st = "refreshing", ![r].retry = TRUE]
  /\ UNCHANGED nearby
  /\ UNCHANGED <<store, user, defaultAuth, failedQueue, handles, nextReq,
                 pathname, redirects>>

\* lines 56-58 and 138: reject with the response's own error
Propagate(r, status) ==
  /\ req' = [req EXCEPT ![r].st = "rejected", ![r].err = "own",
                        ![r].path = IF status \in AuthFailure
                                    THEN "authRejected" ELSE "propagate"]
  /\ LET a == AfterReject(req[r].kind, status, store, defaultAuth, user)
     IN  store' = a[1] /\ defaultAuth' = a[2] /\ user' = a[3]
  /\ UNCHANGED nearby
  /\ UNCHANGED <<isRefreshing, failedQueue, handles, nextReq, refreshCalls,
                 refreshLog, pathname, redirects>>

\* the error handler of the response interceptor, lines 53-139
ResponseError(r, status) ==
  /\ req[r].st = "inflight"
  /\ LET b == Branch(status, req[r].retry, isRefreshing, store.refresh)
     IN  CASE b = "queue"          -> Enqueue(r, status)
           [] b = "noRefreshToken" -> NoRefreshToken(r, status)
           [] b = "refresh"        -> StartRefresh(r, status)
           [] OTHER                -> Propagate(r, status)

\* lines 90-99: axios.post is given no timeout, so a call that the server
\* never answers stays outstanding
RefreshHangs(c) ==
  /\ c \in refreshCalls
  /\ refreshLog[c.id].outcome = "pending"
  /\ refreshLog' = [refreshLog EXCEPT ![c.id].outcome = "hung"]
  /\ UNCHANGED nearby
  /\ UNCHANGED <<store, user, defaultAuth, isRefreshing, failedQueue, handles,
                 req, nextReq, refreshCalls, pathname, redirects>>

\* lines 101-118: the refresh call returned an access token, with a rotated
\* refresh token beside it when `rot`: line 101 reads access_token out of the
\* body and nothing else, so the step is the same either way.  The waiters' continuations (lines 69-72) run before any
\* other event.
RefreshSucceed(c, rot) ==
  /\ c \in refreshCalls
  /\ refreshLog[c.id].outcome = "pending"
  /\ RefreshResult(200, TRUE) = "ok"
  /\ LET tok == AccessTok(c.rt[2], c.id)
         s   == StoreAfterRefresh(store, tok)
         ws  == Waiters
     IN  /\ store' = s
         /\ defaultAuth' = tok
         /\ handles' = ProcessQueue("resolved")
         /\ failedQueue' = QueueAfterProcess(failedQueue)
         /\ req' = [r \in Reqs |->
                      IF r = c.by \/ r \in ws
                      THEN Resend(req[r], s, tok) ELSE req[r]]
         /\ refreshLog' = [refreshLog EXCEPT ![c.id].outcome = "ok",
                                             ![c.id].tok = tok]
  /\ isRefreshing' = FALSE
  /\ refreshCalls' = refreshCalls \ {c}
  /\ UNCHANGED nearby
  /\ UNCHANGED <<user, nextReq, pathname, redirects>>

\* lines 103-105 and 119-135: the refresh call failed (status in
\* RefreshFailures) or returned no access_token (status 200, a thrown Error
\* without response).  The rejected callers' catch blocks run before any
\* other event.
RefreshFail(c, status) ==
  /\ c \in refreshCalls
  /\ refreshLog[c.id].outcome = "pending"
  /\ RefreshErrorPath(status) = "catch"
  /\ RefreshResult(status, FALSE) = "failed"
  /\ LET ws == Waiters
     IN  /\ handles' = ProcessQueue("rejected")
         /\ failedQueue' = QueueAfterProcess(failedQueue)
         /\ req' = [r \in Reqs |->
                      IF r = c.by
                      THEN [req[r] EXCEPT !.st = "rejected",
                                          !.err = "refresh",
                                          !.path = "refreshFailed"]
                      ELSE IF r \in ws
                      THEN [req[r] EXCEPT !.st = "rejected",
                                          !.err = "refresh",
                                          !.path = "waiterRejected"]
                      ELSE req[r]]
         /\ LET a == IF \E r \in ws \cup {c.by} : req[r].kind = "checkAuth"
                     THEN AfterReject("checkAuth", status, ClearStore(store),
                                      defaultAuth, user)
                     ELSE <<ClearStore(store), defaultAuth, user>>
            IN  store' = a[1] /\ defaultAuth' = a[2] /\ user' = a[3]
  /\ isRefreshing' = FALSE
  /\ pathname' = "/login"
  /\ redirects' = redirects + FailureRedirects(pathname, Cardinality(Waiters) + 1)
  /\ refreshCalls' = refreshCalls \ {c}
  /\ refreshLog' = [refreshLog EXCEPT ![c.id].outcome = "failed"]
  /\ UNCHANGED nearby
  /\ UNCHANGED nextReq

\* lines 290-297
Logout ==
  /\ LET a == LoggedOut(store)
     IN  store' = a[1] /\ defaultAuth' = a[2] /\ user' = a[3]
  /\ UNCHANGED nearby
  /\ UNCHANGED <<isRefreshing, failedQueue, handles, req, nextReq,
                 refreshCalls, refreshLog, pathname, redirects>>

Next ==
  \/ \E k \in Kinds : Submit(k)
  \/ \E r \in Reqs : ResponseOk(r)
  \/ \E r \in Reqs, s \in ErrorStatuses : ResponseError(r, s)
  \/ \E c \in refreshCalls : RefreshHangs(c)
  \/ \E c \in refreshCalls, rot \in BOOLEAN : RefreshSucceed(c, rot)
  \/ \E c \in refreshCalls, s \in RefreshFailures \cup {200} : RefreshFail(c, s)
  \/ Logout

Spec == Init /\ [][Next]_vars

\* ------------------------------------- nearby search, src/unnamed/part_000
\* findNearbyByCoords has finished by this path (returns of lines 49 and 55,
\* end of the try block, catch block; then the finally block)
Finish(c, path) ==
  nearby' = [nearby EXCEPT !.pc[c] = path,
                           !.inProgress = LockAfter(path, @)]

\* findNearbyByCoords up to its first await, lines 32-45
Call(c) ==
  /\ nearby.pc[c] = "new"
  /\ nearby' =
       IF nearby.inProgress
       THEN [nearby EXCEPT !.pc[c] = "skipped"]
       ELSE IF nearby.now - nearby.lastAttemptAt < MinRetry
       THEN [nearby EXCEPT !.pc[c] = "throttled"]
       ELSE [nearby EXCEPT !.inProgress = TRUE,
                           !.lastAttemptAt = nearby.now,
                           !.pc[c] = "fetching"]
  /\ UNCHANGED authVars

\* the fetch resolves (lines 22-24, 45-50): res.ok or not
FetchAnswers(c, ok) ==
  /\ nearby.pc[c] = "fetching"
  /\ nearby.now - nearby.lastAttemptAt <= FetchTimeout
  /\ IF ok THEN nearby' = [nearby EXCEPT !.pc[c] = "parsing"]
           ELSE Finish(c, "notOk")
  /\ UNCHANGED authVars

\* res.json() settles (lines 51-59): a payload with ok, one without, or a
\* body that cannot be read (lines 60-66)
BodyRead(c, body) ==
  /\ nearby.pc[c] = "parsing"
  /\ Finish(c, CASE body = "ok"    -> "success"
                 [] body = "notOk" -> "badPayload"
                 [] OTHER          -> "error")
  /\ UNCHANGED authVars

\* the fetch rejects with a network error (lines 25-27, 60-66)
FetchFails(c) ==
  /\ nearby.pc[c] = "fetching"
  /\ Finish(c, "error")
  /\ UNCHANGED authVars

\* the timer of line 20 aborts the fetch (AbortError, lines 62-63)
FetchTimesOut(c) ==
  /\ nearby.pc[c] = "fetching"
  /\ nearby.now - nearby.lastAttemptAt >= FetchTimeout
  /\ Finish(c, "timeout")
  /\ UNCHANGED authVars

\* 15 s pass; a timer that is due fires first
Tick ==
  /\ nearby.now < MaxTime
  /\ \A c \in Calls :
       nearby.pc[c] = "fetching"
         => nearby.now - nearby.lastAttemptAt < FetchTimeout
  /\ nearby' = [nearby EXCEPT !.now = @ + 1]
  /\ UNCHANGED authVars

\* a page that uses the search and nothing of AuthProvider
NearbyInit == Init /\ store = EmptyStore

NearbyNext ==
  \/ \E c \in Calls : Call(c)
  \/ \E c \in Calls, ok \in BOOLEAN : FetchAnswers(c, ok)
  \/ \E c \in Calls, body \in {"ok", "notOk", "unreadable"} : BodyRead(c, body)
  \/ \E c \in Calls : FetchFails(c)
  \/ \E c \in Calls : FetchTimesOut(c)
  \/ Tick

NearbySpec == NearbyInit /\ [][NearbyNext]_vars

\* ================================================================ claims
\* the response interceptor has just handled a 401/422 for request r
AuthHandled(r) ==
  \/ req[r].st \in {"queued", "refreshing"}
  \/ req[r].path \in {"authRejected", "noRefreshToken"}

\* requests waiting on the refresh cycle of call c: its initiator and
\* everything on the waiter queue
WaitingOn(c) == {c.by} \cup {r \in Reqs : req[r].st = "queued"}

\* C1: at most one call to /refresh is outstanding at any time, and a request
\* whose 401/422 is handled while isRefreshing is set issues no refresh call
\* and, unless it is already marked retried, is put on the waiter queue.
C1_SingleFlight ==
  [][ /\ Cardinality(refreshCalls') <= 1
      /\ \A r \in Reqs :
           (isRefreshing /\ req[r].st = "inflight" /\ AuthHandled(r)') =>
             /\ refreshCalls' = refreshCalls
             /\ Len(refreshLog') = Len(refreshLog)
             /\ ~req[r].retry =>
                  /\ req'[r].st = "queued"
                  /\ Len(handles') = Len(handles) + 1
                  /\ handles'[Len(handles')].r = r
                  /\ failedQueue' = Append(failedQueue, Len(handles'))
    ]_vars

\* C1 witness: a refresh call is outstanding and another request waits on it
C1_Witness ==
  /\ Cardinality(refreshCalls) = 1
  /\ \E r \in Reqs : req[r].st = "queued" /\ \A c \in refreshCalls : c.by # r

\* C2 (as claimed): requests first sent with the same access token that all
\* fail authentication cause one call to /refresh in total, also when a
\* failure arrives after the refresh has settled.
C2_OneRefreshPerExpiredToken ==
  \A i, j \in 1..Len(refreshLog) :
    ( /\ refreshLog[i].attempt = 0 /\ refreshLog[j].attempt = 0
      /\ refreshLog[i].sentWith # None
      /\ refreshLog[i].sentWith = refreshLog[j].sentWith ) => i = j

\* C3 (as claimed): no request is resent more than once because of
\* authentication failures, initiator or queued.
C3_RetriedAtMostOnce == \A r \in Reqs : req[r].resends <= 1

\* C4 (as claimed): no enqueued caller stays pending for ever: once no
\* network call is outstanding any more (no request in flight, no refresh
\* call), nothing is left that could release a waiter, so none is pending.
C4_NoWaiterStranded ==
  (refreshCalls = {} /\ \A r \in Reqs : req[r].st # "inflight")
    => \A r \in Reqs : req[r].st # "queued"

\* C5: every promise on the waiter queue is resolved or rejected exactly once
\* when the cycle settles, the queue is emptied in that step, and a promise
\* that is not on the queue is never touched.
C5_ReleasedOnce ==
  [][ /\ \A h \in 1..Len(handles') : handles'[h].calls <= 1
      /\ \A h \in 1..Len(handles) :
           h \notin QueuedHandles => handles'[h] = handles[h]
      /\ \A c \in refreshCalls : c \notin refreshCalls' =>
           /\ failedQueue' = <<>>
           /\ \A h \in QueuedHandles :
                handles[h].calls = 0 /\ handles'[h].calls = 1
    ]_vars

\* C5 witness: a promise released by one cycle, and a later cycle has
\* settled as well
C5_Witness ==
  /\ \E h \in 1..Len(handles) : handles[h].calls = 1
  /\ Len(refreshLog) >= 2
  /\ \A i \in 1..Len(refreshLog) : refreshLog[i].outcome \in {"ok", "failed"}

\* C6 (as claimed): every refresh cycle that has ended has put RefreshState
\* back to Idle: isRefreshing is set only while a refresh call is in flight.
C6_IdleAfterCycle == isRefreshing => refreshCalls # {}

\* C7 (as claimed): when a waiter is rejected, the store is already cleared
\* and the session already logged out.
C7_ClearedBeforeRelease ==
  \A h \in 1..Len(handles) :
    handles[h].how = "rejected" =>
      handles[h].storeAt = EmptyStore /\ handles[h].userAt = None

\* C8: when the refresh call fails, the initiator and every queued request
\* reject with the refresh error, none of them is resent, and the store holds
\* no access token, refresh token or profile afterwards.
C8_FanOutOnFailure ==
  [][ \A c \in refreshCalls :
        (refreshLog'[c.id].outcome = "failed") =>
          /\ \A r \in WaitingOn(c) :
               /\ req'[r].st = "rejected"
               /\ req'[r].err = "refresh"
               /\ req'[r].resends = req[r].resends
          /\ store' = EmptyStore
    ]_vars

\* C8 witness: a cycle has failed with a queued request waiting on it
C8_Witness ==
  /\ \E r \in Reqs : req[r].path = "refreshFailed"
  /\ \E r \in Reqs : req[r].path = "waiterRejected"

\* C9: when the refresh call succeeds, the initiator and every queued request
\* are resent once, each carrying the access token that refresh delivered.
C9_FanOutOnSuccess ==
  [][ \A c \in refreshCalls :
        (refreshLog'[c.id].outcome = "ok") =>
          \A r \in WaitingOn(c) :
            /\ req'[r].st = "inflight"
            /\ req'[r].resends = req[r].resends + 1
            /\ req'[r].hdr = refreshLog'[c.id].tok
    ]_vars

\* C9 witness: after a successful refresh the initiator and a queued request
\* are both in flight again with the delivered token
C9_Witness ==
  \E i \in 1..Len(refreshLog) :
    /\ refreshLog[i].outcome = "ok"
    /\ \E r \in Reqs :
         /\ r # refreshLog[i].by
         /\ req[r].st = "inflight" /\ req[r].resends = 1 /\ ~req[r].retry
         /\ req[r].hdr = refreshLog[i].tok
    /\ req[refreshLog[i].by].st = "inflight"
    /\ req[refreshLog[i].by].hdr = refreshLog[i].tok

\* C10: a request already marked retried that receives another 401/422 is
\* rejected with that response's error; no refresh call is started, nothing is
\* enqueued, and the store and isRefreshing keep their values.
C10_RetriedIsRejected ==
  [][ \A r \in Reqs :
        (req[r].st = "inflight" /\ req[r].retry /\ AuthHandled(r)') =>
          /\ req'[r].st = "rejected"
          /\ req'[r].err = "own"
          /\ refreshCalls' = refreshCalls
          /\ Len(refreshLog') = Len(refreshLog)
          /\ failedQueue' = failedQueue
          /\ handles' = handles
          /\ store' = store
          /\ isRefreshing' = isRefreshing
    ]_vars

\* C10 witness: a resent, retried request has been rejected on its second
\* authentication failure
C10_Witness ==
  \E r \in Reqs :
    /\ req[r].path = "authRejected"
    /\ req[r].retry /\ req[r].resends = 1

\* ---------------------------------------------------------------------------
\* Claims 11-20: the session held by AuthProvider and the calls of its users.

\* C11 (as stated): whenever the store holds no credential the session has no
\* user.  The interceptor's failure paths clear the store without calling
\* setUser(null), and checkAuth's catch block sets the cached profile again.
C11_NoCredentialNoUser ==
  (store.access = None /\ store.refresh = None) => user = None

\* the request sent by checkAuth failed with 401/422 and this step ends the
\* refresh attempt made for it in failure (no refresh token to present, or
\* the refresh call it started or waited for failed)
CheckAuthGivesUp(r) ==
  /\ req[r].kind = "checkAuth"
  /\ req[r].path = "none"
  /\ req'[r].path \in {"noRefreshToken", "refreshFailed", "waiterRejected"}

\* C12 (as stated): when the verification call of checkAuth fails with
\* 401/422 and the refresh attempt ends in failure, checkAuth finishes with
\* no user in the session.
C12_CheckAuthEndsLoggedOut ==
  [][\A r \in Reqs : CheckAuthGivesUp(r) => user' = None]_vars


\* this step rejects the call made by login / register / handleGoogleCallback
\* and so takes the operation to its catch block (lines 225-229): the call's
\* own response is rejected, or the refresh call started for it fails
LoginFails(r) ==
  /\ req[r].kind = "login"
  /\ req[r].st \in {"inflight", "refreshing"}
  /\ req'[r].st = "rejected"

\* C13 (as stated): a failing login, register or OAuth exchange leaves the
\* stored access token, refresh token and profile and the session's user as
\* they were.
C13_FailedLoginChangesNothing ==
  [][\A r \in Reqs : LoginFails(r) => (store' = store /\ user' = user)]_vars


\* C14 (as stated): the call made by login, register or the OAuth exchange
\* carries no bearer credential and is sent once, with no refresh call made
\* on its behalf.
C14_LoginCallUnauthenticatedOnce ==
  \A r \in Reqs :
    (req[r].kind = "login" /\ req[r].st # "new") =>
      /\ req[r].hdr = None
      /\ req[r].resends = 0
      /\ \A i \in 1..Len(refreshLog) : refreshLog[i].by # r


\* this step sends request r: a first send (Submit) or a replay (Resend)
Sent(r) == req[r].st # "inflight" /\ req'[r].st = "inflight"

\* C15 (as stated): every send, replays included, carries the access token
\* the store holds at that moment, and no bearer credential when the store
\* holds none.
C15_CarriesStoreToken ==
  [][\A r \in Reqs : Sent(r) => req'[r].hdr = store'.access]_vars


\* the refresh token a rotating backend returns beside the new access token
\* in the response to refresh call c: never the one c presented
RotatedTok(c) == RefreshTok(c.rt[2], c.id)

\* C16 (as stated): when the response to a refresh call holds a rotated
\* refresh token, the store holds that token after the step.
C16_RotatedTokenStored ==
  [][\A c \in refreshCalls :
       RefreshSucceed(c, TRUE) => store'.refresh = RotatedTok(c)]_vars


\* the state a failed refresh cycle leaves: Idle, store cleared, nobody waiting
CycleEndedInFailure ==
  /\ ~isRefreshing
  /\ store = EmptyStore
  /\ \A r \in Reqs : req[r].st \notin {"queued", "refreshing"}

\* C17 (as stated): a refresh call that never returns is ended by a timeout:
\* while such a call is outstanding, a step that ends its cycle as a failure
\* can be taken.
C17_HungRefreshTimesOut ==
  (\E c \in refreshCalls : refreshLog[c.id].outcome = "hung")
    => ENABLED (Next /\ CycleEndedInFailure')


\* C18: a response with a status other than 401 and 422, or no response at
\* all, is rejected to its caller with its own error: no refresh call is
\* started, the request is neither resent nor queued, and the flag, the
\* queue and the store stay as they are (the store is emptied only by
\* checkAuth's own catch block, on a 404).  A step handles a 422 exactly when
\* it handles a 401.
C18_OtherErrorsPropagate ==
  [][/\ \A r \in Reqs, s \in ErrorStatuses \ AuthFailure :
          ResponseError(r, s) =>
            /\ req'[r].st = "rejected" /\ req'[r].err = "own"
            /\ req'[r].resends = req[r].resends
            /\ req'[r].retry = req[r].retry
            /\ refreshCalls' = refreshCalls /\ refreshLog' = refreshLog
            /\ isRefreshing' = isRefreshing
            /\ failedQueue' = failedQueue /\ handles' = handles
            /\ store' = IF req[r].kind = "checkAuth" /\ s = 404
                        THEN EmptyStore ELSE store
            /\ pathname' = pathname /\ redirects' = redirects
     /\ \A r \in Reqs : ResponseError(r, 422) <=> ResponseError(r, 401)]_vars

C18_Witness ==
  /\ isRefreshing /\ failedQueue # <<>>
  /\ store # EmptyStore
  /\ \E r \in Reqs : req[r].path = "propagate" /\ req[r].err = "own"


\* refresh call c is outstanding in a logged-out state (the store was filled
\* when c was issued, so logout has run since) and this step is its failure
FailsAfterLogout(c) ==
  /\ store = EmptyStore /\ user = None
  /\ refreshLog'[c.id].outcome = "failed"

\* C19 (as stated): logout leaves the store empty and the session without a
\* user however often it is called, and so does the failure of a refresh
\* cycle during which logout was called.
C19_LogoutSafe ==
  [][/\ Logout => (store' = EmptyStore /\ user' = None)
     /\ \A c \in refreshCalls :
          FailsAfterLogout(c) => (store' = EmptyStore /\ user' = None)]_vars


\* this step is the failure of refresh call c
CycleFails(c) ==
  /\ refreshLog[c.id].outcome = "pending"
  /\ refreshLog'[c.id].outcome = "failed"

\* what the failure of call c does besides the redirect: the store is
\* cleared, the initiator and the waiters are rejected without being sent
\* again, and no refresh call is issued
FailureEffects(c) ==
  /\ store' = EmptyStore
  /\ pathname' = "/login"
  /\ ~isRefreshing' /\ refreshCalls' = {} /\ failedQueue' = <<>>
  /\ Len(refreshLog') = Len(refreshLog)
  /\ \A r \in WaitingOn(c) :
       req'[r].st = "rejected" /\ req'[r].resends = req[r].resends
  /\ \A r \in Reqs \ WaitingOn(c) : req'[r] = req[r]

\* C20 (as stated): the failure of a refresh cycle clears the store and
\* redirects to the login page exactly once, however many requests it
\* rejects, and nothing more is cleared, redirected or refreshed.
C20_LogoutEffectOnce ==
  [][\A c \in refreshCalls :
       CycleFails(c) => (FailureEffects(c) /\ redirects' = redirects + 1)]_vars

\* C20 (amended): the failure of a refresh cycle clears the store and
\* redirects to the login page at most once, however many requests it
\* rejects: once when the page is not the login page, not at all when it is;
\* no request is sent again and no refresh call is issued.
C20_LogoutEffectAtMostOnce ==
  [][\A c \in refreshCalls :
       CycleFails(c) =>
         /\ FailureEffects(c)
         /\ redirects' = redirects + (IF pathname = "/login" THEN 0 ELSE 1)]_vars

C20_Witness ==
  /\ redirects = 1 /\ store = EmptyStore
  /\ \E r \in Reqs :
       /\ req[r].path = "refreshFailed"
       /\ \A q \in Reqs \ {r} : req[q].path = "waiterRejected"

\* ---------------------------------------------------------------------------
\* Claims 21-30

\* C21: when the call of checkAuth fails without a response, checkAuth ends
\* with the cached profile as the session's user and leaves the store, the
\* flag and the queue as they are.
C21_TransportErrorKeepsCachedSession ==
  [][\A r \in Reqs :
       (req[r].kind = "checkAuth" /\ ResponseError(r, NoResponse)) =>
         /\ user' = SavedSession.user
         /\ store' = store
         /\ req'[r].st = "rejected"
         /\ isRefreshing' = isRefreshing /\ refreshCalls' = refreshCalls]_vars

C21_Witness ==
  \E r \in Reqs :
    /\ req[r].kind = "checkAuth" /\ req[r].path = "propagate"
    /\ req[r].resends = 0
    /\ store = SavedSession /\ user = SavedSession.user

\* C22: when the call of checkAuth is answered 404, checkAuth ends with no
\* user in the session and with no access token, refresh token or profile
\* in the store.
C22_AccountNotFoundLogsOut ==
  [][\A r \in Reqs :
       (req[r].kind = "checkAuth" /\ ResponseError(r, 404)) =>
         /\ user' = None
         /\ store' = EmptyStore
         /\ defaultAuth' = None
         /\ req'[r].st = "rejected"]_vars

C22_Witness ==
  \E r \in Reqs :
    /\ req[r].kind = "checkAuth" /\ req[r].path = "propagate"
    /\ store = EmptyStore /\ user = None
    /\ redirects = 0 /\ refreshLog = <<>>


\* C23: waiters are settled in the order in which they were pushed on
\* failedQueue: of two settled promises, the one pushed first was settled
\* first.
C23_ReleasedInEnqueueOrder ==
  \A g, h \in 1..Len(handles) :
    (g < h /\ handles[g].pos > 0 /\ handles[h].pos > 0)
      => handles[g].pos < handles[h].pos

C23_Witness ==
  \E g, h \in 1..Len(handles) :
    /\ g < h /\ handles[g].r # handles[h].r
    /\ handles[g].pos > 0 /\ handles[h].pos = handles[g].pos + 1
    /\ handles[g].how = handles[h].how


\* C24 (as stated): the access token, the refresh token and the profile in
\* the store belong to one session.
C24_OneSessionInStore ==
  /\ (store.access # None /\ store.refresh # None)
       => store.access[2] = store.refresh[2]
  /\ (store.user # None /\ store.refresh # None)
       => store.user[2] = store.refresh[2]
  /\ (store.user # None /\ store.access # None)
       => store.user[2] = store.access[2]


\* this step is the success of a login, register or OAuth exchange
LoginSucceeds == \E r \in Reqs : req[r].kind = "login" /\ ResponseOk(r)

\* C25 (as stated): once logged out, the store stays empty and the session
\* stays without a user until a login, register or OAuth exchange succeeds.
C25_LogoutStable ==
  [][(store = EmptyStore /\ user = None /\ ~LoginSucceeds)
       => (store' = EmptyStore /\ user' = None)]_vars


\* no 401/422 was handled with the refresh token missing from the store, and
\* no refresh call was left unanswered
TokenStoredAndCallsReturn ==
  /\ \A r \in Reqs : req[r].path # "noRefreshToken"
  /\ \A i \in 1..Len(refreshLog) : refreshLog[i].outcome # "hung"

\* request r has neither resolved nor rejected
Unsettled(r) == req[r].st \in {"inflight", "queued", "refreshing"}

\* C26: a request starts at most one refresh call, so N requests start at
\* most N, and is sent again at most once per refresh call; and while a
\* refresh token was stored whenever a 401/422 was handled and every call is
\* answered, each unsettled request has a step that moves it on.
C26_BoundedRefreshAndReplay ==
  /\ \A i, j \in 1..Len(refreshLog) :
       refreshLog[i].by = refreshLog[j].by => i = j
  /\ Len(refreshLog) <= nextReq - 1
  /\ \A r \in Reqs : req[r].resends <= Len(refreshLog)
  /\ TokenStoredAndCallsReturn =>
       \A r \in Reqs : Unsettled(r) => ENABLED (Next /\ req'[r] # req[r])

C26_Witness ==
  /\ TokenStoredAndCallsReturn
  /\ Len(refreshLog) = MaxReq
  /\ \A r \in Reqs : req[r].st = "rejected"
  /\ \E r \in Reqs : req[r].resends = 2


\* C27: whenever isRefreshing is false, failedQueue is empty.
C27_IdleQueueEmpty == ~isRefreshing => failedQueue = <<>>

C27_Witness ==
  /\ ~isRefreshing /\ failedQueue = <<>>
  /\ \E h \in 1..Len(handles) : handles[h].how # "pending"
  /\ Len(refreshLog) >= 2


\* C28: every failure status of an outstanding refresh call, 401 and 422
\* included, is taken by the catch block; that step ends the call, issues no
\* other refresh call and queues nobody; and a step that sets isRefreshing
\* issues at most one call.
C28_RefreshFailureIsFinal ==
  /\ [](\A c \in refreshCalls :
          refreshLog[c.id].outcome = "pending" =>
            \A s \in RefreshFailures : ENABLED RefreshFail(c, s))
  /\ [][/\ \A c \in refreshCalls :
             CycleFails(c) =>
               /\ refreshCalls' = {}
               /\ Len(refreshLog') = Len(refreshLog)
               /\ Len(handles') = Len(handles)
               /\ failedQueue' = <<>>
               /\ \A r \in Reqs : req'[r].st \notin {"queued", "refreshing"}
        /\ (~isRefreshing /\ isRefreshing')
             => Len(refreshLog') <= Len(refreshLog) + 1]_vars

C28_Witness ==
  /\ Len(refreshLog) = 1 /\ refreshLog[1].outcome = "failed"
  /\ ~isRefreshing /\ refreshCalls = {}
  /\ \E r \in Reqs : req[r].path = "waiterRejected"
  /\ \A r \in Reqs : req[r].st = "rejected"


\* C29: an answer 200 without access token to an outstanding refresh call is
\* taken as a failure: the step writes no access token, rejects the
\* initiator and every waiter without sending them again, empties the store
\* and resets isRefreshing.
C29_MissingTokenIsFailure ==
  /\ [](\A c \in refreshCalls :
          refreshLog[c.id].outcome = "pending" => ENABLED RefreshFail(c, 200))
  /\ [][\A c \in refreshCalls :
          (CycleFails(c) /\ RefreshFail(c, 200)) =>
            /\ store' = EmptyStore
            /\ refreshLog'[c.id].tok = None
            /\ ~isRefreshing' /\ failedQueue' = <<>>
            /\ \A r \in WaitingOn(c) :
                 /\ req'[r].st = "rejected" /\ req'[r].err = "refresh"
                 /\ req'[r].resends = req[r].resends
                 /\ req'[r].hdr = req[r].hdr]_vars

C29_Witness ==
  /\ store = EmptyStore /\ ~isRefreshing
  /\ Len(refreshLog) = 2
  /\ refreshLog[1].outcome = "ok" /\ refreshLog[2].outcome = "failed"
  /\ refreshLog[2].tok = None
  /\ \E r \in Reqs : req[r].path = "waiterRejected" /\ req[r].resends = 1


\* C30: at most one call of findNearbyByCoords is between its fetch and its
\* end, and when none is, STATE.inProgress is false.
C30_NearbyLock ==
  /\ Cardinality({c \in Calls : nearby.pc[c] \in Running}) <= 1
  /\ (\A c \in Calls : nearby.pc[c] \notin Running) => ~nearby.inProgress

C30_Witness ==
  \E c, d, e \in Calls :
    /\ nearby.pc[c] = "timeout"
    /\ nearby.pc[d] = "skipped"
    /\ nearby.pc[e] \in Running

====
